---- MODULE Spec2Model ----
(***************************************************************************)
(* Model of the Ulanzi D200 protocol engine (legacy/ulanzi_py):            *)
(*   ulanzi_d200.py    UlanziDevice: frame codec, chunk transmitter,       *)
(*                     firmware-quirk patcher, event decoder               *)
(*   device_manager.py device_session: advisory lock around a session      *)
(* Byte strings are sequences of integers 0..255.  Python offsets are      *)
(* 0-based; the helpers At/Slice/SetSlice carry the Python slice rules.    *)
(***************************************************************************)
EXTENDS Integers, Sequences, FiniteSets, TLC

VARIABLES
    \* ---- pure-function harness (SpecStream) ----
    stream,         \* the byte stream handed to _send_file / _patch_invalid_bytes
    fn,             \* which function was applied last ("init" before any)
    patch_out,      \* result of _patch_invalid_bytes(stream)
    repatch_out,    \* result of _patch_invalid_bytes on the data of patch_out
    buttons_arg,    \* the buttons dict handed to set_buttons (SpecBundle)
    \* ---- UlanziDevice object (Spec) ----
    device,               \* transport handle: "open", or "closed" after close()
    button_callback,      \* _button_callback: "None" or the registered observer
    patched_bytes_total,  \* _patched_bytes_total
    last_patched_bytes,   \* _last_patched_bytes
    last_patch_note,      \* _last_patch_note
    zip_send_count,       \* _zip_send_count
    last_zip_count,       \* _last_zip_count
    \* ---- observation of the call that ran last ----
    op,             \* name of the method that ran last ("init" before any)
    ret,            \* its return value
    raised,         \* exception that escaped to the caller ("none" if it returned)
    read_failed,    \* device.read raised (read_button_press only)
    read_data,      \* what device.read returned to it (read_button_press only)
    cb_events,      \* events the observer was invoked with during the call
    writes,         \* buffers handed to device.write during the call
    call_arg,       \* its argument: <<level>> of set_brightness, the archive
                    \* zipfile produced in set_buttons, <<>> otherwise
    write_fault,    \* which of its writes the transport failed (0: none)
    bundle,         \* the bundle it built (set_buttons only)
    \* ---- device_manager: processes using device_session (SpecLock) ----
    LOCK_DISABLED,  \* module flag read from ULANZI_LOCK_DISABLED at import
    lock,           \* flock state of LOCK_PATH: "free" or the process holding LOCK_EX
    pc,             \* per process: its position in device_session
    lock_fd,        \* per process: its handle on the lock file is open
    handle,         \* per process: its transport handle: "none", "open", "closed"
    caller,         \* per process: the function that entered device_session
    block,          \* per process: the block argument of device_session
    exc,            \* per process: exception travelling out of the session
    result,         \* per process: what the caller's call came to ("pending" inside)
    nwrites,        \* per process: writes made on its transport handle in this session
    sessions        \* per process: sessions entered so far

(***************************************************************************)
(* Program constants                                                       *)
(***************************************************************************)
PACKET_SIZE == 1024
HEADER == <<124, 124>>

OUT_SET_BUTTONS == 1
OUT_SET_SMALL_WINDOW_DATA == 6
OUT_SET_BRIGHTNESS == 10
OUT_SET_LABEL_STYLE == 11
IN_BUTTON == 257
IN_BUTTON_2 == 258
IN_DEVICE_INFO == 771

\* invalid_bytes = {b'\x00'[0], b'\x7c'[0]} in set_buttons
INVALID_BYTES == {0, 124}
\* patched[idx] = 0x01
PATCH_VALUE == 1

(***************************************************************************)
(* Bounds of the model                                                     *)
(***************************************************************************)
\* number of 1024-byte continuation windows the generated streams reach into
MaxWindows == 2

(***************************************************************************)
(* Python sequence helpers                                                 *)
(***************************************************************************)
Min(a, b) == IF a < b THEN a ELSE b
Max(a, b) == IF a > b THEN a ELSE b

\* s[i] for a 0-based offset i
At(s, i) == s[i + 1]

\* s[a:b] with Python's clamping of the bounds (a, b >= 0)
Slice(s, a, b) ==
    LET lo == Min(a, Len(s))
        hi == Max(lo, Min(b, Len(s)))
    IN  SubSeq(s, lo + 1, hi)

\* bytearray slice assignment s[a:b] = v: the slice is replaced by v, so the
\* array grows when v is longer than the (clamped) slice
SetSlice(s, a, b, v) ==
    LET lo == Min(a, Len(s))
        hi == Max(lo, Min(b, Len(s)))
    IN  SubSeq(s, 1, lo) \o v \o SubSeq(s, hi + 1, Len(s))

\* bytes.ljust(width, fill)
Ljust(s, width, fill) ==
    IF Len(s) >= width THEN s
    ELSE s \o [i \in 1..(width - Len(s)) |-> fill]

\* variant: the stop value is included
Range_inclusive(start, stop, step) ==
    LET n == IF stop >= start THEN (stop - start + step) \div step ELSE 0
    IN  [k \in 1..n |-> start + (k - 1) * step]

\* list(range(start, stop, step)) for step > 0
Range(start, stop, step) ==
    LET n == IF stop > start THEN (stop - start + step - 1) \div step ELSE 0
    IN  [k \in 1..n |-> start + (k - 1) * step]

RECURSIVE Concat(_)
\* b"".join(list_of_buffers)
Concat(bufs) == IF bufs = <<>> THEN <<>> ELSE Head(bufs) \o Concat(Tail(bufs))

\* struct.pack('>H', v)
PackBE16(v) == <<(v \div 256) % 256, v % 256>>
\* struct.unpack('>H', b)[0]
UnpackBE16(b) == b[1] * 256 + b[2]
\* struct.pack('<I', v)
PackLE32(v) == <<v % 256, (v \div 256) % 256, (v \div 65536) % 256, (v \div 16777216) % 256>>
\* struct.unpack('<I', b)[0]
UnpackLE32(b) == b[1] + b[2] * 256 + b[3] * 65536 + b[4] * 16777216

(***************************************************************************)
(* Frame codec: UlanziDevice._build_packet                                 *)
(***************************************************************************)
build_packet(command, data, length) ==
    LET packet == [i \in 1..PACKET_SIZE |-> 0]
        p1 == SetSlice(packet, 0, 2, HEADER)
        p2 == SetSlice(p1, 2, 4, PackBE16(command))
        p3 == SetSlice(p2, 4, 8, PackLE32(length))
    IN  SetSlice(p3, 8, 8 + Len(data), data)

(***************************************************************************)
(* Chunk transmitter: the packet list built by UlanziDevice._send_file     *)
(***************************************************************************)
\* variant: the continuation windows start at chunk_size instead of
\* chunk_size - 8, skipping the 8 bytes the header displaced
send_file_packets_skip8(data) ==
    LET chunk_size == 1024
        file_size == Len(data)
        first_chunk == Slice(data, 0, chunk_size - 8)
        packet == build_packet(OUT_SET_BUTTONS,
                               Ljust(first_chunk, chunk_size - 8, 0), file_size)
        starts == Range(chunk_size, Len(data), chunk_size)
    IN  <<packet>> \o
        [k \in 1..Len(starts) |->
            Ljust(Slice(data, starts[k], starts[k] + chunk_size), chunk_size, 0)]

send_file_packets(data) ==
    LET chunk_size == 1024
        file_size == Len(data)
        first_chunk == Slice(data, 0, chunk_size - 8)
        packet == build_packet(OUT_SET_BUTTONS,
                               Ljust(first_chunk, chunk_size - 8, 0), file_size)
        starts == Range(chunk_size - 8, Len(data), chunk_size)
    IN  <<packet>> \o
        [k \in 1..Len(starts) |->
            Ljust(Slice(data, starts[k], starts[k] + chunk_size), chunk_size, 0)]

(***************************************************************************)
(* Firmware-quirk patcher: UlanziDevice._patch_invalid_bytes               *)
(* The while-loop is the recursion; scans counts the list comprehensions   *)
(* evaluated before the loop breaks.                                       *)
(***************************************************************************)
RECURSIVE patch_offsets(_, _)
\* for idx in current: patched[idx] = 0x01
patch_offsets(patched, current) ==
    IF current = <<>> THEN patched
    ELSE patch_offsets([patched EXCEPT ![Head(current) + 1] = PATCH_VALUE],
                       Tail(current))

RECURSIVE patch_loop(_, _, _, _)
patch_loop(patched, fixed_offsets, invalid_bytes, scans) ==
    LET current == SelectSeq(Range(1016, Len(patched), 1024),
                             LAMBDA i : At(patched, i) \in invalid_bytes)
    IN  IF current = <<>>
        THEN [data |-> patched, offsets |-> fixed_offsets, scans |-> scans + 1]
        ELSE patch_loop(patch_offsets(patched, current),
                        fixed_offsets \o current, invalid_bytes, scans + 1)

\* variant: the scan also treats 'A' (0x41) as a bad value
patch_invalid_bytes_wide(zip_data, invalid_bytes) ==
    patch_loop(zip_data, <<>>, invalid_bytes \cup {65}, 0)

\* variant: one scan, and only the first bad offset it finds is rewritten
patch_invalid_bytes_first(zip_data, invalid_bytes) ==
    LET current == SelectSeq(Range(1016, Len(zip_data), 1024),
                             LAMBDA i : At(zip_data, i) \in invalid_bytes)
    IN  IF current = <<>>
        THEN [data |-> zip_data, offsets |-> <<>>, scans |-> 1]
        ELSE [data |-> patch_offsets(zip_data, <<Head(current)>>),
              offsets |-> <<Head(current)>>, scans |-> 1]

\* variant: the offsets found are recorded, and the unpatched stream is
\* scanned again with that record kept
patch_invalid_bytes_rescanned(zip_data, invalid_bytes) ==
    LET first == patch_loop(zip_data, <<>>, invalid_bytes, 0)
    IN  patch_loop(zip_data, first.offsets, invalid_bytes, first.scans)

\* variant: the scan looks at the offsets 1024, 2048, ... instead
patch_invalid_bytes_at_1024(zip_data, invalid_bytes) ==
    LET current == SelectSeq(Range(1024, Len(zip_data), 1024),
                             LAMBDA i : At(zip_data, i) \in invalid_bytes)
    IN  [data |-> patch_offsets(zip_data, current), offsets |-> current,
         scans |-> IF current = <<>> THEN 1 ELSE 2]

patch_invalid_bytes(zip_data, invalid_bytes) ==
    patch_loop(zip_data, <<>>, invalid_bytes, 0)

(***************************************************************************)
(* test_ulanzi_d200.reconstruct_zip_bytes: what a receiver reassembles     *)
(***************************************************************************)
reconstruct_zip_bytes(ws) ==
    LET first_packet == ws[1]
        total_length == UnpackLE32(Slice(first_packet, 4, 8))
        first_data == Slice(first_packet, 8, 1024)
        remaining == IF Len(ws) > 1 THEN Concat(Tail(ws)) ELSE <<>>
    IN  Slice(first_data \o remaining, 0, total_length)

(***************************************************************************)
(* Generated byte streams                                                  *)
(***************************************************************************)
\* values placed on the offsets 1016, 2040, ... : both bad values, the patch
\* value and an ordinary byte
BoundaryBytes == {0, 124, 1, 65}
FillSeeds == {0, 91}

\* every byte value occurs off the quirk offsets, 0x00 and 0x7C included
Fill(seed, o) == (seed + o + (o \div 256) * 3) % 256

StreamLens ==
    {0, 1, 8, 1015, 1500}
    \cup {1016 + 1024 * k + d : k \in 0..(MaxWindows - 1), d \in {0, 1}}
    \cup {1016 + 1024 * k - 1 : k \in 1..(MaxWindows - 1)}

MakeStream(len, seed, bv) ==
    [i \in 1..len |->
        IF (i - 1) % 1024 = 1016 THEN bv[((i - 1) \div 1024) + 1]
        ELSE Fill(seed, i - 1)]

Streams ==
    {MakeStream(len, seed, bv) :
        len \in StreamLens, seed \in FillSeeds,
        bv \in [1..MaxWindows -> BoundaryBytes]}

NoPatch == [data |-> <<>>, offsets |-> <<>>, scans |-> 0]

streamVars == <<stream, fn, patch_out, repatch_out, buttons_arg>>
objVars == <<device, button_callback, patched_bytes_total, last_patched_bytes,
             last_patch_note, zip_send_count, last_zip_count>>
callVars == <<op, ret, raised, read_failed, read_data, cb_events, call_arg,
             write_fault, bundle>>

lockVars == <<LOCK_DISABLED, lock, pc, lock_fd, handle, caller, block, exc,
              result, nwrites, sessions>>

vars == <<streamVars, objVars, callVars, writes, lockVars>>

\* the processes that contend for the device
Procs == {"p1", "p2"}

\* no process has entered device_session yet
InitProcs ==
    /\ lock = "free"
    /\ pc = [p \in Procs |-> "idle"]
    /\ lock_fd = [p \in Procs |-> FALSE]
    /\ handle = [p \in Procs |-> "none"]
    /\ caller = [p \in Procs |-> "none"]
    /\ block = [p \in Procs |-> TRUE]
    /\ exc = [p \in Procs |-> "none"]
    /\ result = [p \in Procs |-> "none"]
    /\ nwrites = [p \in Procs |-> 0]
    /\ sessions = [p \in Procs |-> 0]

\* {}
EmptyDict == [k \in {} |-> 0]

\* no bundle: the call was not set_buttons
NoBundle == [buttons |-> <<>>, manifest |-> EmptyDict, icons |-> <<>>,
             names |-> <<>>]

\* return values
RetNone == [kind |-> "None"]
RetTrue == [kind |-> "True"]

\* UlanziDevice.__init__ after a successful _connect
InitObject ==
    /\ device = "open"
    /\ button_callback = "None"
    /\ patched_bytes_total = 0
    /\ last_patched_bytes = 0
    /\ last_patch_note = <<>>
    /\ zip_send_count = 0
    /\ last_zip_count = 0

InitCall ==
    /\ op = "init"
    /\ ret = RetNone
    /\ raised = "none"
    /\ read_failed = FALSE
    /\ read_data = <<>>
    /\ cb_events = <<>>
    /\ call_arg = <<>>
    /\ write_fault = 0
    /\ bundle = NoBundle

(***************************************************************************)
(* SpecStream: the stream functions applied to generated streams           *)
(***************************************************************************)
InitStream ==
    /\ stream \in Streams
    /\ buttons_arg = <<>>
    /\ fn = "init"
    /\ patch_out = NoPatch
    /\ repatch_out = NoPatch
    /\ writes = <<>>
    /\ InitObject
    /\ InitCall
    /\ LOCK_DISABLED = FALSE
    /\ InitProcs

\* _send_file(stream) against a transport that accepts every write
CallSendFile ==
    /\ fn \in {"init", "patch"}
    /\ fn' = "send_file"
    /\ writes' = send_file_packets(stream)
    /\ UNCHANGED <<stream, buttons_arg, patch_out, repatch_out, objVars,
                   callVars, lockVars>>

\* _patch_invalid_bytes(stream, {0x00, 0x7c}), then the same call on its result
CallPatch ==
    /\ fn = "init"
    /\ fn' = "patch"
    /\ patch_out' = patch_invalid_bytes(stream, INVALID_BYTES)
    /\ repatch_out' = patch_invalid_bytes(patch_out'.data, INVALID_BYTES)
    /\ UNCHANGED <<stream, buttons_arg, writes, objVars, callVars, lockVars>>

NextStream == CallSendFile \/ CallPatch

SpecStream == InitStream /\ [][NextStream]_vars

(***************************************************************************)
(* Text encodings used by the command helpers                              *)
(***************************************************************************)
RECURSIVE Decimal(_)
\* str(n) for n >= 0, as ASCII codes
Decimal(n) == IF n < 10 THEN <<48 + n>> ELSE Decimal(n \div 10) \o <<48 + (n % 10)>>

\* str(n).encode() for any integer
StrInt(n) == IF n < 0 THEN <<45>> \o Decimal(0 - n) ELSE Decimal(n)

\* dict.get(key, default)
Get(d, key, default) == IF key \in DOMAIN d THEN d[key] ELSE default

\* style values carry their JSON type: t = "str" (v = ASCII codes), "int", "bool"
JStr(v) == [t |-> "str", v |-> v]
JInt(v) == [t |-> "int", v |-> v]
JBool(v) == [t |-> "bool", v |-> v]

\* json.dumps of one value (strings of plain ASCII letters need no escapes)
json_value(x) ==
    CASE x.t = "str" -> <<34>> \o x.v \o <<34>>
      [] x.t = "int" -> StrInt(x.v)
      [] x.t = "bool" -> IF x.v THEN <<116, 114, 117, 101>> ELSE <<102, 97, 108, 115, 101>>

\* default_style of set_label_style
default_style ==
    [Align |-> JStr(<<98, 111, 116, 116, 111, 109>>),
     Color |-> JInt(16777215),
     FontName |-> JStr(<<82, 111, 98, 111, 116, 111>>),
     ShowTitle |-> JBool(TRUE),
     Size |-> JInt(10),
     Weight |-> JInt(80)]

\* json.dumps(default_style) after default_style.update(style), style keys
\* among the default ones: '{"Align": .., "Color": .., ... , "Weight": ..}'
label_style_payload(style) ==
    LET merged == [k \in DOMAIN default_style |-> Get(style, k, default_style[k])]
    IN  <<123, 34, 65, 108, 105, 103, 110, 34, 58, 32>> \o json_value(merged.Align)
        \o <<44, 32, 34, 67, 111, 108, 111, 114, 34, 58, 32>> \o json_value(merged.Color)
        \o <<44, 32, 34, 70, 111, 110, 116, 78, 97, 109, 101, 34, 58, 32>>
        \o json_value(merged.FontName)
        \o <<44, 32, 34, 83, 104, 111, 119, 84, 105, 116, 108, 101, 34, 58, 32>>
        \o json_value(merged.ShowTitle)
        \o <<44, 32, 34, 83, 105, 122, 101, 34, 58, 32>> \o json_value(merged.Size)
        \o <<44, 32, 34, 87, 101, 105, 103, 104, 116, 34, 58, 32>>
        \o json_value(merged.Weight)
        \o <<125>>

\* f'{mode}|{cpu}|{mem}|{time_str}|{gpu}' of set_small_window_data; now is the
\* wall clock's '%H:%M:%S' used when the caller gives no time
small_window_payload(data, now) ==
    LET mode == Get(data, "mode", 1)
        cpu == Get(data, "cpu", 0)
        mem == Get(data, "mem", 0)
        gpu == Get(data, "gpu", 0)
        time_str == Get(data, "time", now)
    IN  StrInt(mode) \o <<124>> \o StrInt(cpu) \o <<124>> \o StrInt(mem)
        \o <<124>> \o time_str \o <<124>> \o StrInt(gpu)

\* _emit_patch_notice: f"invalid bytes patch {fixed_offsets} (fix:{patched_bytes})"
\* kept as its parts; "" is the empty tuple
emit_patch_notice(fixed_offsets, patched_bytes) ==
    <<"invalid bytes patch", fixed_offsets, patched_bytes>>

(***************************************************************************)
(* Event decoder: UlanziDevice.read_button_press                           *)
(* read_try is the try block: it ends with a return value or with an       *)
(* exception (exc); except_exception is the handler 'except Exception'.    *)
(* Exceptions: "ValueError" (read on a closed handle), "OSError" (read     *)
(* error), "IndexError" (button_data too short), "ObserverError" (an       *)
(* Exception raised by the callback).                                      *)
(***************************************************************************)
Observers == {"obs_ok", "obs_raise"}

TryResult(r, events, e) == [ret |-> r, events |-> events, exc |-> e]

\* the try block, given the command codes taken as button presses
decode_with(dev, read_ok, data, callback, button_commands) ==
    IF dev # "open" THEN TryResult(RetNone, <<>>, "ValueError")
    ELSE IF ~read_ok THEN TryResult(RetNone, <<>>, "OSError")
    ELSE IF data = <<>> \/ Len(data) < 8 THEN TryResult(RetNone, <<>>, "none")
    ELSE IF Slice(data, 0, 2) # HEADER THEN TryResult(RetNone, <<>>, "none")
    ELSE IF UnpackBE16(Slice(data, 2, 4)) \notin button_commands
    THEN TryResult(RetNone, <<>>, "none")
    ELSE LET button_data == Slice(data, 8, 12)
         IN  \* button_data[0], button_data[1], button_data[3]
             IF Len(button_data) < 4 THEN TryResult(RetNone, <<>>, "IndexError")
             ELSE LET button_press ==
                          [kind |-> "ButtonPress",
                           index |-> At(button_data, 1),
                           pressed |-> (At(button_data, 3) = 1),
                           state |-> At(button_data, 0)]
                  IN  IF callback = "None"
                      THEN TryResult(button_press, <<>>, "none")
                      ELSE IF callback = "obs_raise"
                      THEN TryResult(RetNone, <<button_press>>, "ObserverError")
                      ELSE TryResult(button_press, <<button_press>>, "none")

\* variant: the command code is not checked
read_try_any_command(dev, read_ok, data, callback) ==
    decode_with(dev, read_ok, data, callback, 0..65535)

read_try(dev, read_ok, data, callback) ==
    decode_with(dev, read_ok, data, callback, {IN_BUTTON, IN_BUTTON_2})

\* variant: only failures of the transport read are handled
except_read_errors(r) ==
    IF r.exc \in {"OSError", "ValueError"}
    THEN TryResult(RetNone, r.events, "none") ELSE r

\* except Exception as e: logger.debug(...); return None
except_exception(r) ==
    IF r.exc # "none" THEN TryResult(RetNone, r.events, "none") ELSE r

(***************************************************************************)
(* The bundle set_buttons builds: manifest and archive entries             *)
(* buttons is the caller's dict in iteration order, a sequence of          *)
(* [idx, config]; a config is a function on a subset of                    *)
(* {"state", "label", "image"}; a path is a sequence of components.        *)
(***************************************************************************)
\* the icon files that exist when set_buttons runs: path |-> content
FileSystem ==
    (<<"a", "x.png">> :> <<137, 80, 78, 71>>)
    @@ (<<"b", "x.png">> :> <<66, 77>>)
    @@ (<<"a", "y.png">> :> <<71, 73, 70>>)

\* Path(image_path).exists()
exists(image_path) == image_path \in DOMAIN FileSystem

\* Path(image_path).name
icon_name(image_path) == image_path[Len(image_path)]

\* f'icons/{icon_name}'
icon_entry(image_path) == <<"icons", icon_name(image_path)>>

\* variant: the key written row first
manifest_key_row_first(idx) ==
    LET row == idx \div 5
        col == idx % 5
    IN  StrInt(row) \o <<95>> \o StrInt(col)

\* f"{col}_{row}" with row = idx // 5 and col = idx % 5
manifest_key(idx) ==
    LET row == idx \div 5
        col == idx % 5
    IN  StrInt(col) \o <<95>> \o StrInt(row)

\* whether this button's icon file is read and written to the archive
image_found(config) ==
    /\ DOMAIN config # {}
    /\ "image" \in DOMAIN config
    /\ exists(config["image"])

\* variant: Icon set for every config that names an image, found or not
button_data_icon_unchecked(config) ==
    LET text == IF DOMAIN config # {} /\ "label" \in DOMAIN config
                THEN [Text |-> config["label"]] ELSE EmptyDict
        icon == IF DOMAIN config # {} /\ "image" \in DOMAIN config
                THEN [Icon |-> icon_entry(config["image"])] ELSE EmptyDict
    IN  [State |-> Get(config, "state", 0), ViewParam |-> <<icon @@ text>>]

\* the manifest entry of one button
button_data(config) ==
    LET text == IF DOMAIN config # {} /\ "label" \in DOMAIN config
                THEN [Text |-> config["label"]] ELSE EmptyDict
        icon == IF image_found(config)
                THEN [Icon |-> icon_entry(config["image"])] ELSE EmptyDict
    IN  [State |-> Get(config, "state", 0), ViewParam |-> <<icon @@ text>>]

\* manifest[key] = button_data
dict_set(manifest, key, value) ==
    [k \in DOMAIN manifest \cup {key} |-> IF k = key THEN value ELSE manifest[k]]

\* the loop over buttons.items(): every found icon is written to the archive
\* as it is met, every button gets its manifest entry
RECURSIVE build_loop(_, _, _, _)
build_loop(buttons, n, manifest, icons) ==
    IF n > Len(buttons)
    THEN [manifest |-> manifest, icons |-> icons]
    ELSE LET idx == buttons[n].idx
             config == buttons[n].config
         IN  build_loop(buttons, n + 1,
                 dict_set(manifest, manifest_key(idx), button_data(config)),
                 IF image_found(config)
                 THEN Append(icons, [name |-> icon_entry(config["image"]),
                                     data |-> FileSystem[config["image"]]])
                 ELSE icons)

\* the archive set_buttons hands to zipfile: the icon entries in the order
\* written, then manifest.json holding the manifest, then the empty dummy.txt
build_bundle(buttons) ==
    LET b == build_loop(buttons, 1, EmptyDict, <<>>)
    IN  [buttons |-> buttons,
         manifest |-> b.manifest,
         icons |-> b.icons,
         names |-> [i \in 1..Len(b.icons) |-> b.icons[i].name]
                   \o << <<"manifest.json">>, <<"dummy.txt">> >>]


(***************************************************************************)
(* Inputs of the UlanziDevice operations                                   *)
(***************************************************************************)
\* bound on the bundle sends of one session
MaxSends == 2
\* bound on the running total of patched bytes
MaxPatched == 3

\* levels below, across and above the range: every one-digit level, the
\* turns to two and to three digits, and levels that are clamped
BrightnessLevels == ((0 - 10)..20) \cup (90..110) \cup {42, 150}
\* the levels set in the sessions of Spec
BrightnessSample == {0 - 10, 42}

\* a string of n letters
Letters(n) == [i \in 1..n |-> 77]
\* length of an over-long caller string
LongText == 1100

LabelStyles ==
    { [k \in {} |-> JInt(0)],
      [FontName |-> JStr(<<77, 111, 110, 111>>), ShowTitle |-> JBool(FALSE)],
      [FontName |-> JStr(Letters(LongText))] }

ClockNow == <<50, 51, 58, 53, 57, 58, 53, 57>>

SmallWindowData ==
    { [k \in {} |-> 0],
      [k \in {"mode", "cpu", "mem", "gpu"} |->
          CASE k = "mode" -> 0 [] k = "cpu" -> 10 [] k = "mem" -> 20 [] k = "gpu" -> 30],
      [k \in {"mode", "time"} |->
          IF k = "mode" THEN 2 ELSE <<49, 50, 58, 48, 48, 58, 48, 48>>],
      [k \in {"time"} |-> Letters(LongText)] }

\* archive bytes as zipfile hands them to the patcher (opaque to the sender).
\* the archives sent in the sessions of Spec: one chunk; two chunks with 0x00
\* on the quirk offset; two chunks, clean; three chunks with 0x7C on the
\* second quirk offset
ZipSample ==
    { MakeStream(300, 80, [k \in 1..MaxWindows |-> 65]),
      MakeStream(1017, 80, [k \in 1..MaxWindows |-> IF k = 1 THEN 0 ELSE 65]),
      MakeStream(1017, 80, [k \in 1..MaxWindows |-> 65]),
      MakeStream(2041, 80, [k \in 1..MaxWindows |-> IF k = 2 THEN 124 ELSE 65]) }

\* what the transport does with the writes of one call: it takes them all,
\* or it fails the at-th one, by raising or by returning -1 from write
NoFault == [at |-> 0, mode |-> "none"]
\* bound on the position of the failing write
MaxFaultAt == 2
WriteFaults ==
    {NoFault} \cup {[at |-> k, mode |-> m] :
                        k \in 1..MaxFaultAt, m \in {"raise", "status"}}
\* the same for a call that writes once
CommandFaults == {fault \in WriteFaults : fault.at <= 1}

\* button configs: every combination of absent and present keys, an icon
\* that exists, one of the same base name in another directory, one missing
Configs ==
    { EmptyDict,
      [state |-> 3],
      [label |-> "Hi"],
      [label |-> "Hi", image |-> <<"a", "x.png">>],
      [state |-> 1, image |-> <<"b", "x.png">>],
      [image |-> <<"a", "y.png">>],
      [state |-> 2, label |-> "Off", image |-> <<"a", "gone.png">>] }

ButtonIndexes == {0, 7, 13}
\* bound on the buttons of one set_buttons call
MaxButtons == 2

\* dicts of up to MaxButtons buttons, in every iteration order
ButtonMaps ==
    UNION { { b \in [1..n -> [idx : ButtonIndexes, config : Configs]] :
                \A i, j \in 1..n : i # j => b[i].idx # b[j].idx } :
            n \in 0..MaxButtons }

\* the bundle sent in the sessions of Spec
ButtonSample ==
    { << [idx |-> 0, config |-> [label |-> "Hi", image |-> <<"a", "x.png">>]],
         [idx |-> 7, config |-> [state |-> 2, label |-> "Off",
                                 image |-> <<"a", "gone.png">>]] >> }

\* buffers device.read can return: a frame prefix of the given length
Inbound(len, marker, command, payload) ==
    Slice(Ljust(marker \o PackBE16(command) \o <<0, 0, 0, 0>> \o payload,
                PACKET_SIZE, 0), 0, len)

InboundBuffers ==
    {Inbound(len, HEADER, c, pl) :
        len \in {8, 9, 10, 11, 12, 1024}, c \in {IN_BUTTON, IN_BUTTON_2},
        pl \in {<<5, 7, 0, 1>>, <<0, 13, 9, 0>>, <<1, 0, 1, 2>>}}
    \cup {Inbound(len, HEADER, IN_BUTTON, <<5, 7, 0, 1>>) : len \in {0, 1, 7}}
    \cup {Inbound(12, m, IN_BUTTON, <<5, 7, 0, 1>>) :
            m \in {<<124, 0>>, <<0, 124>>, <<0, 0>>}}
    \cup {Inbound(12, HEADER, c, <<5, 7, 0, 1>>) :
            c \in {IN_DEVICE_INFO, OUT_SET_BUTTONS, 256, 513}}

\* the few reads mixed into the sessions of Spec: a press, a release on the
\* other command, a cut-off frame, a foreign frame and an empty read
InboundSample ==
    { Inbound(1024, HEADER, IN_BUTTON, <<5, 7, 0, 1>>),
      Inbound(12, HEADER, IN_BUTTON_2, <<0, 13, 9, 0>>),
      Inbound(9, HEADER, IN_BUTTON, <<5, 7, 0, 1>>),
      Inbound(12, <<0, 124>>, IN_BUTTON, <<5, 7, 0, 1>>),
      <<>> }

(***************************************************************************)
(* Spec: one UlanziDevice object and the calls made on it                  *)
(***************************************************************************)
Init ==
    /\ stream = <<>>
    /\ buttons_arg = <<>>
    /\ fn = "init"
    /\ patch_out = NoPatch
    /\ repatch_out = NoPatch
    /\ writes = <<>>
    /\ InitObject
    /\ InitCall
    /\ LOCK_DISABLED = FALSE
    /\ InitProcs

\* whether the write loop is left by an exception: a closed handle refuses
\* the first write with ValueError, a transport that raises stops it at the
\* failing write, one that reports the failure in its return value does not
write_raises(fault) == device # "open" \/ fault.mode = "raise"

\* device.write(packet) for each packet in turn, the result of each write
\* dropped by the caller.  fault names the write the transport fails, if any.
Transmit(packets, fault) ==
    /\ fault.at <= Len(packets)
    /\ device # "open" => fault = NoFault
    /\ IF device # "open"
       THEN /\ writes' = SubSeq(packets, 1, 1)
            /\ raised' = "ValueError"
            /\ write_fault' = 1
       ELSE IF fault.mode = "raise"
       THEN /\ writes' = SubSeq(packets, 1, fault.at)
            /\ raised' = "OSError"
            /\ write_fault' = fault.at
       ELSE /\ writes' = packets
            /\ raised' = "none"
            /\ write_fault' = fault.at

\* _send_command(command, payload)
send_command(command, payload, fault) ==
    Transmit(<<build_packet(command, payload, Len(payload))>>, fault)

set_button_callback(callback) ==
    /\ op' = "set_button_callback"
    /\ button_callback' = callback
    /\ ret' = RetNone
    /\ raised' = "none"
    /\ read_failed' = FALSE
    /\ read_data' = <<>>
    /\ cb_events' = <<>>
    /\ writes' = <<>>
    /\ call_arg' = <<>>
    /\ write_fault' = 0
    /\ bundle' = NoBundle
    /\ UNCHANGED <<streamVars, device, patched_bytes_total, last_patched_bytes,
                   last_patch_note, zip_send_count, last_zip_count, lockVars>>

close ==
    /\ op' = "close"
    /\ device' = "closed"
    /\ ret' = RetNone
    /\ raised' = "none"
    /\ read_failed' = FALSE
    /\ read_data' = <<>>
    /\ cb_events' = <<>>
    /\ writes' = <<>>
    /\ call_arg' = <<>>
    /\ write_fault' = 0
    /\ bundle' = NoBundle
    /\ UNCHANGED <<streamVars, button_callback, patched_bytes_total,
                   last_patched_bytes, last_patch_note, zip_send_count,
                   last_zip_count, lockVars>>

\* variant: an exception in the try block also drops the observer
read_button_press_disarming(read_ok, data) ==
    LET failed == device # "open" \/ ~read_ok
        t == read_try(device, read_ok, data, button_callback)
        r == except_exception(t)
    IN  /\ op' = "read_button_press"
        /\ raised' = r.exc
        /\ read_failed' = failed
        /\ read_data' = IF failed THEN <<>> ELSE data
        /\ ret' = r.ret
        /\ cb_events' = r.events
        /\ writes' = <<>>
        /\ call_arg' = <<>>
        /\ write_fault' = 0
        /\ bundle' = NoBundle
        /\ button_callback' = IF t.exc # "none" THEN "None" ELSE button_callback
        /\ UNCHANGED <<streamVars, device, patched_bytes_total, last_patched_bytes,
                       last_patch_note, zip_send_count, last_zip_count, lockVars>>

\* read_ok: whether device.read returns (data is what it returns) or raises;
\* a closed handle always raises
read_button_press(read_ok, data) ==
    LET failed == device # "open" \/ ~read_ok
        r == except_exception(read_try(device, read_ok, data, button_callback))
    IN  /\ op' = "read_button_press"
        /\ raised' = r.exc
        /\ read_failed' = failed
        /\ read_data' = IF failed THEN <<>> ELSE data
        /\ ret' = r.ret
        /\ cb_events' = r.events
        /\ writes' = <<>>
        /\ call_arg' = <<>>
        /\ write_fault' = 0
        /\ bundle' = NoBundle
        /\ UNCHANGED <<streamVars, objVars, lockVars>>

\* variant: the level sent as given
set_brightness_unclamped(brightness, fault) ==
    LET payload == StrInt(brightness)
    IN  /\ op' = "set_brightness"
        /\ send_command(OUT_SET_BRIGHTNESS, payload, fault)
        /\ ret' = RetNone
        /\ read_failed' = FALSE
        /\ read_data' = <<>>
        /\ cb_events' = <<>>
        /\ call_arg' = <<brightness>>
        /\ bundle' = NoBundle
        /\ UNCHANGED <<streamVars, objVars, lockVars>>

set_brightness(brightness, fault) ==
    LET clamped == Max(0, Min(100, brightness))
        payload == StrInt(clamped)
    IN  /\ op' = "set_brightness"
        /\ send_command(OUT_SET_BRIGHTNESS, payload, fault)
        /\ ret' = RetNone
        /\ read_failed' = FALSE
        /\ read_data' = <<>>
        /\ cb_events' = <<>>
        /\ call_arg' = <<brightness>>
        /\ bundle' = NoBundle
        /\ UNCHANGED <<streamVars, objVars, lockVars>>

set_label_style(style, fault) ==
    /\ op' = "set_label_style"
    /\ send_command(OUT_SET_LABEL_STYLE, label_style_payload(style), fault)
    /\ ret' = RetNone
    /\ read_failed' = FALSE
    /\ read_data' = <<>>
    /\ cb_events' = <<>>
    /\ call_arg' = <<>>
    /\ bundle' = NoBundle
    /\ UNCHANGED <<streamVars, objVars, lockVars>>

set_small_window_data(data, now, fault) ==
    /\ op' = "set_small_window_data"
    /\ send_command(OUT_SET_SMALL_WINDOW_DATA, small_window_payload(data, now),
                    fault)
    /\ ret' = RetNone
    /\ read_failed' = FALSE
    /\ read_data' = <<>>
    /\ cb_events' = <<>>
    /\ call_arg' = <<>>
    /\ bundle' = NoBundle
    /\ UNCHANGED <<streamVars, objVars, lockVars>>

\* set_buttons(buttons): build the bundle, patch the archive bytes zipfile
\* produced for it, record the patch report, send, count.  archive is what
\* zip_buffer.getvalue() returned.
set_buttons(buttons, archive, fault) ==
    LET file_size == Len(archive)
        p == patch_invalid_bytes(archive, INVALID_BYTES)
        zip_data == p.data
        fixed_offsets == p.offsets
        sent == ~write_raises(fault)
    IN  /\ zip_send_count < MaxSends
        /\ patched_bytes_total + Len(fixed_offsets) <= MaxPatched
        /\ op' = "set_buttons"
        /\ bundle' = build_bundle(buttons)
        /\ call_arg' = archive
        /\ IF fixed_offsets # <<>>
           THEN /\ last_patched_bytes' = Len(fixed_offsets)
                /\ patched_bytes_total' = patched_bytes_total + Len(fixed_offsets)
                /\ last_patch_note' =
                       emit_patch_notice(fixed_offsets, Len(fixed_offsets))
           ELSE /\ last_patch_note' = <<>>
                /\ UNCHANGED <<last_patched_bytes, patched_bytes_total>>
        /\ Transmit(send_file_packets(zip_data), fault)
        /\ zip_send_count' = IF sent THEN zip_send_count + 1 ELSE zip_send_count
        /\ last_zip_count' = IF sent THEN zip_send_count + 1 ELSE last_zip_count
        /\ ret' = IF sent THEN RetTrue ELSE RetNone
        /\ read_failed' = FALSE
        /\ read_data' = <<>>
        /\ cb_events' = <<>>
        /\ UNCHANGED <<streamVars, device, button_callback, lockVars>>

Next ==
    \/ \E callback \in Observers : set_button_callback(callback)
    \/ close
    \/ \E data \in InboundSample : read_button_press(TRUE, data)
    \/ read_button_press(FALSE, <<>>)
    \/ \E brightness \in BrightnessSample, fault \in CommandFaults :
            set_brightness(brightness, fault)
    \/ \E style \in LabelStyles, fault \in CommandFaults :
            set_label_style(style, fault)
    \/ \E data \in SmallWindowData, fault \in CommandFaults :
            set_small_window_data(data, ClockNow, fault)
    \/ \E buttons \in ButtonSample, archive \in ZipSample,
          fault \in WriteFaults :
            set_buttons(buttons, archive, fault)

Spec == Init /\ [][Next]_vars

(***************************************************************************)
(* SpecBundle: set_buttons applied to every generated buttons dict, on a   *)
(* one-chunk archive                                                       *)
(***************************************************************************)
BundleArchive == MakeStream(300, 80, [k \in 1..MaxWindows |-> 65])

InitBundle ==
    /\ stream = <<>>
    /\ buttons_arg \in ButtonMaps
    /\ fn = "init"
    /\ patch_out = NoPatch
    /\ repatch_out = NoPatch
    /\ writes = <<>>
    /\ InitObject
    /\ InitCall
    /\ LOCK_DISABLED = FALSE
    /\ InitProcs

NextBundle ==
    \/ \E fault \in CommandFaults : set_buttons(buttons_arg, BundleArchive, fault)
    \/ close

SpecBundle == InitBundle /\ [][NextBundle]_vars

(***************************************************************************)
(* SpecBrightness: set_brightness over every generated level, on an open   *)
(* and on a closed handle                                                  *)
(***************************************************************************)
NextBrightness ==
    \/ \E brightness \in BrightnessLevels, fault \in CommandFaults :
            set_brightness(brightness, fault)
    \/ close

SpecBrightness == Init /\ [][NextBrightness]_vars

(***************************************************************************)
(* SpecTransmit: set_buttons with every generated stream as the archive    *)
(* zipfile produced, on a transport that takes or fails the writes         *)
(***************************************************************************)
NextTransmit ==
    \/ \E buttons \in ButtonSample, fault \in WriteFaults :
            set_buttons(buttons, stream, fault)
    \/ close

SpecTransmit == InitStream /\ [][NextTransmit]_vars

(***************************************************************************)
(* SpecDecode: the event decoder alone, over every generated inbound       *)
(* buffer, idle and armed, on an open and on a closed handle               *)
(***************************************************************************)
NextDecode ==
    \/ \E callback \in Observers : set_button_callback(callback)
    \/ close
    \/ \E data \in InboundBuffers : read_button_press(TRUE, data)
    \/ read_button_press(FALSE, <<>>)

SpecDecode == Init /\ [][NextDecode]_vars

(***************************************************************************)
(* SpecLock: processes entering device_session (device_manager.py)         *)
(* Each process runs the context manager step by step; other processes     *)
(* may run between any two steps.  flock gives LOCK_EX to one open file    *)
(* description at a time, and closing the description drops its lock.      *)
(***************************************************************************)
\* bound on the sessions one process enters
MaxSessions == 2
\* bound on the transport writes of one session body
MaxBodyWrites == 1

\* who enters device_session, and with which block argument:
\*   send_buttons            device_session(device_path)          block = True
\*   ping_keep_alive         device_session(.., block=not best_effort)
\*   device_session          a direct caller, either block value
Entries ==
    { [caller |-> "send_buttons", block |-> TRUE],
      [caller |-> "ping_keep_alive", block |-> TRUE],
      [caller |-> "ping_keep_alive", block |-> FALSE],
      [caller |-> "device_session", block |-> TRUE],
      [caller |-> "device_session", block |-> FALSE] }

otherVars == <<streamVars, objVars, callVars, writes>>

InitLock ==
    /\ stream = <<>>
    /\ buttons_arg = <<>>
    /\ fn = "init"
    /\ patch_out = NoPatch
    /\ repatch_out = NoPatch
    /\ writes = <<>>
    /\ InitObject
    /\ InitCall
    /\ LOCK_DISABLED \in BOOLEAN
    /\ InitProcs

\* a caller enters device_session
start_session(p, entry) ==
    /\ pc[p] = "idle"
    /\ sessions[p] < MaxSessions
    /\ sessions' = [sessions EXCEPT ![p] = @ + 1]
    /\ caller' = [caller EXCEPT ![p] = entry.caller]
    /\ block' = [block EXCEPT ![p] = entry.block]
    /\ exc' = [exc EXCEPT ![p] = "none"]
    /\ result' = [result EXCEPT ![p] = "pending"]
    /\ handle' = [handle EXCEPT ![p] = "none"]
    /\ nwrites' = [nwrites EXCEPT ![p] = 0]
    /\ pc' = [pc EXCEPT ![p] = "enter"]
    /\ UNCHANGED <<LOCK_DISABLED, lock, lock_fd, otherVars>>

\* if LOCK_DISABLED: straight to UlanziDevice(); else LOCK_PATH.open("w")
enter_session(p) ==
    /\ pc[p] = "enter"
    /\ IF LOCK_DISABLED
       THEN /\ pc' = [pc EXCEPT ![p] = "connect"]
            /\ UNCHANGED lock_fd
       ELSE /\ pc' = [pc EXCEPT ![p] = "flock"]
            /\ lock_fd' = [lock_fd EXCEPT ![p] = TRUE]
    /\ UNCHANGED <<LOCK_DISABLED, lock, handle, caller, block, exc, result,
                   nwrites, sessions, otherVars>>

\* fcntl.flock(lock_fd, LOCK_EX [| LOCK_NB]) granted: nobody holds the lock
flock_acquire(p) ==
    /\ pc[p] = "flock"
    /\ lock = "free"
    /\ lock' = p
    /\ pc' = [pc EXCEPT ![p] = "connect"]
    /\ UNCHANGED <<LOCK_DISABLED, lock_fd, handle, caller, block, exc, result,
                   nwrites, sessions, otherVars>>

\* variant: BlockingIOError is swallowed and the session goes on unlocked
flock_busy_ignored(p) ==
    /\ pc[p] = "flock"
    /\ ~block[p]
    /\ lock # "free"
    /\ pc' = [pc EXCEPT ![p] = "connect"]
    /\ UNCHANGED <<LOCK_DISABLED, lock, lock_fd, handle, caller, block, exc,
                   result, nwrites, sessions, otherVars>>

\* LOCK_NB while another description holds the lock: BlockingIOError, re-raised
\* out of the with block
flock_busy(p) ==
    /\ pc[p] = "flock"
    /\ ~block[p]
    /\ lock # "free"
    /\ exc' = [exc EXCEPT ![p] = "BlockingIOError"]
    /\ pc' = [pc EXCEPT ![p] = "exit_with"]
    /\ UNCHANGED <<LOCK_DISABLED, lock, lock_fd, handle, caller, block, result,
                   nwrites, sessions, otherVars>>

\* dev = UlanziDevice(device_path): _connect opens the transport, or raises
\* (device not found, open failure) before any handle is open
connect(p, ok) ==
    /\ pc[p] = "connect"
    /\ IF ok
       THEN /\ handle' = [handle EXCEPT ![p] = "open"]
            /\ pc' = [pc EXCEPT ![p] = "body"]
            /\ UNCHANGED exc
       ELSE /\ exc' = [exc EXCEPT ![p] = "RuntimeError"]
            /\ pc' = [pc EXCEPT ![p] =
                         IF LOCK_DISABLED THEN "return" ELSE "exit_with"]
            /\ UNCHANGED handle
    /\ UNCHANGED <<LOCK_DISABLED, lock, lock_fd, caller, block, result,
                   nwrites, sessions, otherVars>>

\* the body of the with statement writes to its device
body_write(p) ==
    /\ pc[p] = "body"
    /\ nwrites[p] < MaxBodyWrites
    /\ nwrites' = [nwrites EXCEPT ![p] = @ + 1]
    /\ UNCHANGED <<LOCK_DISABLED, lock, pc, lock_fd, handle, caller, block, exc,
                   result, sessions, otherVars>>

\* the body ends: normally after its writes, or with an exception at any point
body_end(p, ok) ==
    /\ pc[p] = "body"
    /\ ok => nwrites[p] >= 1
    /\ exc' = [exc EXCEPT ![p] = IF ok THEN "none" ELSE "BodyError"]
    /\ pc' = [pc EXCEPT ![p] = "close"]
    /\ UNCHANGED <<LOCK_DISABLED, lock, lock_fd, handle, caller, block, result,
                   nwrites, sessions, otherVars>>

\* finally: dev.close()
close_device(p) ==
    /\ pc[p] = "close"
    /\ handle' = [handle EXCEPT ![p] = "closed"]
    /\ pc' = [pc EXCEPT ![p] = IF LOCK_DISABLED THEN "return" ELSE "unlock"]
    /\ UNCHANGED <<LOCK_DISABLED, lock, lock_fd, caller, block, exc, result,
                   nwrites, sessions, otherVars>>

\* finally: fcntl.flock(lock_fd, fcntl.LOCK_UN)
unlock(p) ==
    /\ pc[p] = "unlock"
    /\ lock' = IF lock = p THEN "free" ELSE lock
    /\ pc' = [pc EXCEPT ![p] = "exit_with"]
    /\ UNCHANGED <<LOCK_DISABLED, lock_fd, handle, caller, block, exc, result,
                   nwrites, sessions, otherVars>>

\* variant: leaving the with block leaves a lock taken on the file in place
exit_with_keeps_lock(p) ==
    /\ pc[p] = "exit_with"
    /\ lock_fd' = [lock_fd EXCEPT ![p] = FALSE]
    /\ pc' = [pc EXCEPT ![p] = "return"]
    /\ UNCHANGED <<LOCK_DISABLED, lock, handle, caller, block, exc, result,
                   nwrites, sessions, otherVars>>

\* leaving 'with LOCK_PATH.open("w") as lock_fd': the file is closed, which
\* drops a lock its description still holds
exit_with(p) ==
    /\ pc[p] = "exit_with"
    /\ lock_fd' = [lock_fd EXCEPT ![p] = FALSE]
    /\ lock' = IF lock = p THEN "free" ELSE lock
    /\ pc' = [pc EXCEPT ![p] = "return"]
    /\ UNCHANGED <<LOCK_DISABLED, handle, caller, block, exc, result, nwrites,
                   sessions, otherVars>>

\* variant: ping_keep_alive without its except clause
call_result_uncaught(c, e) ==
    IF e = "none" THEN "ok" ELSE e

\* what the caller's call comes to: ping_keep_alive returns (True, now), or
\* (False, "") on BlockingIOError; any other exception reaches the caller
call_result(c, e) ==
    IF e = "none" THEN "ok"
    ELSE IF c = "ping_keep_alive" /\ e = "BlockingIOError" THEN "(False, '')"
    ELSE e

\* the call is over: its locals (dev, the exception, the arguments) are gone
return_to_caller(p) ==
    /\ pc[p] = "return"
    /\ result' = [result EXCEPT ![p] = call_result(caller[p], exc[p])]
    /\ pc' = [pc EXCEPT ![p] = "idle"]
    /\ exc' = [exc EXCEPT ![p] = "none"]
    /\ handle' = [handle EXCEPT ![p] = "none"]
    /\ block' = [block EXCEPT ![p] = TRUE]
    /\ nwrites' = [nwrites EXCEPT ![p] = 0]
    /\ caller' = [caller EXCEPT ![p] = "none"]
    /\ UNCHANGED <<LOCK_DISABLED, lock, lock_fd, sessions, otherVars>>

\* the steps of a process inside a session
session_step(p) ==
    \/ enter_session(p)
    \/ flock_acquire(p)
    \/ flock_busy(p)
    \/ \E ok \in BOOLEAN : connect(p, ok)
    \/ body_write(p)
    \/ \E ok \in BOOLEAN : body_end(p, ok)
    \/ close_device(p)
    \/ unlock(p)
    \/ exit_with(p)
    \/ return_to_caller(p)

NextLock ==
    \E p \in Procs :
        \/ \E entry \in Entries : start_session(p, entry)
        \/ session_step(p)

SpecLock == InitLock /\ [][NextLock]_vars

\* Every started step of a session is taken (the bodies in device_manager.py
\* are straight-line code), and a process blocked in flock is woken each time
\* the lock is released.
SpecLockFair ==
    /\ SpecLock
    /\ \A p \in Procs : WF_vars(session_step(p))
    /\ \A p \in Procs : SF_vars(flock_acquire(p))

(***************************************************************************)
(* Properties                                                              *)
(***************************************************************************)

C2_EveryWriteIs1024 ==
    \A i \in 1..Len(writes) : Len(writes[i]) = PACKET_SIZE

\* offsets of s that the firmware quirk concerns
QuirkOffsetsOf(s) == {i \in 0..(Len(s) - 1) : i % 1024 = 1016}

\* C3 (SpecStream): _patch_invalid_bytes keeps the length, and changes a byte
\* only at an offset congruent to 1016 mod 1024 that held 0x00 or 0x7C
C3_PatchFrame ==
    fn = "patch" =>
        /\ Len(patch_out.data) = Len(stream)
        /\ \A i \in 0..(Len(stream) - 1) :
              At(patch_out.data, i) # At(stream, i) =>
                  /\ i % 1024 = 1016
                  /\ At(stream, i) \in {0, 124}

\* a patched stream that also has a quirk offset holding another value and
\* bad values off the quirk offsets
C3_Witness ==
    /\ fn = "patch"
    /\ patch_out.data # stream
    /\ \E i \in QuirkOffsetsOf(stream) : At(stream, i) \notin {0, 124}
    /\ \E i \in 0..(Len(stream) - 1) : i % 1024 # 1016 /\ At(stream, i) = 124
    /\ \E i \in 0..(Len(stream) - 1) : i % 1024 # 1016 /\ At(stream, i) = 0

\* C4 (SpecStream): patching the patcher's own output reports no offsets and
\* returns it unchanged
C4_PatchIdempotent ==
    fn = "patch" =>
        /\ repatch_out.offsets = <<>>
        /\ repatch_out.data = patch_out.data

\* the first run rewrote two offsets
C4_Witness ==
    /\ fn = "patch"
    /\ Len(patch_out.offsets) >= 2
    /\ repatch_out.offsets = <<>>

\* the last call read a marked button-press frame of at least 12 bytes
ReadButtonFrame ==
    /\ op = "read_button_press"
    /\ ~read_failed
    /\ Len(read_data) >= 12
    /\ Slice(read_data, 0, 2) = <<124, 124>>
    /\ UnpackBE16(Slice(read_data, 2, 4)) \in {257, 258}

\* the event the bytes 8, 9 and 11 of the buffer read describe
EventOf(data) ==
    [kind |-> "ButtonPress", index |-> At(data, 9),
     pressed |-> (At(data, 11) = 1), state |-> At(data, 8)]

\* C5 (SpecDecode): a marked button-press frame of at least 12 bytes is
\* returned as ButtonPress(state = byte 8, index = byte 9, pressed = (byte 11
\* = 1)), idle or armed; a registered observer is invoked exactly once with
\* that event, and none is invoked when none is registered
C5_ButtonFrameDecoded ==
    ReadButtonFrame =>
        /\ ret = EventOf(read_data)
        /\ cb_events = IF button_callback = "None" THEN <<>>
                       ELSE <<EventOf(read_data)>>

\* the last call read nothing, too little, a wrong marker or a foreign command
ReadNoEvent ==
    /\ op = "read_button_press"
    /\ ~read_failed
    /\ \/ Len(read_data) < 8
       \/ Slice(read_data, 0, 2) # <<124, 124>>
       \/ UnpackBE16(Slice(read_data, 2, 4)) \notin {257, 258}

\* C6 (SpecDecode): such a read gives None, raises nothing and does not
\* invoke the observer
C6_NoEvent ==
    ReadNoEvent =>
        /\ ret = RetNone
        /\ raised = "none"
        /\ cb_events = <<>>

\* armed, and a well-marked frame with a command that is no button press
C6_Witness ==
    /\ ReadNoEvent
    /\ button_callback = "obs_ok"
    /\ Len(read_data) >= 12
    /\ Slice(read_data, 0, 2) = <<124, 124>>
    /\ ret = RetNone

\* C7 (SpecDecode): read_button_press returns an event or None and lets no
\* exception out, whatever the read gave, also when the read or the observer
\* raised
C7_NeverRaises ==
    op = "read_button_press" =>
        /\ raised = "none"
        /\ ret.kind \in {"None", "ButtonPress"}

\* a marked button-press frame cut off inside the button bytes
C7_Witness ==
    /\ op = "read_button_press"
    /\ ~read_failed
    /\ Len(read_data) \in 8..11
    /\ Slice(read_data, 0, 2) = <<124, 124>>
    /\ UnpackBE16(Slice(read_data, 2, 4)) \in {257, 258}
    /\ ret = RetNone
    /\ raised = "none"

\* C8 (SpecLock): with locking enabled no two sessions hold an open transport
\* handle at once, and a session's handle is open only while it holds the lock
C8_OneOpenHandle ==
    ~LOCK_DISABLED =>
        /\ \A p, q \in Procs :
              (handle[p] = "open" /\ handle[q] = "open") => p = q
        /\ \A p \in Procs : handle[p] = "open" => lock = p

\* one session writes on its open handle while another waits in flock
C8_Witness ==
    /\ ~LOCK_DISABLED
    /\ \E p, q \in Procs :
          /\ p # q
          /\ handle[p] = "open"
          /\ nwrites[p] >= 1
          /\ pc[q] = "flock"

\* C9 (SpecLockFair): a process that has left device_session holds no lock,
\* however it left (body returned, body raised, connect failed after the lock
\* was taken), and a process blocked in a blocking flock gets the lock
C9_LockReleased ==
    /\ [](\A p \in Procs : pc[p] \in {"return", "idle"} => lock # p)
    /\ \A p \in Procs : (pc[p] = "flock" /\ block[p]) ~> (lock = p)

\* a process is out of its session after a failed connect, and another
\* process has taken the lock since
C9_Witness ==
    \E p, q \in Procs :
        /\ ~LOCK_DISABLED
        /\ p # q
        /\ pc[p] = "idle"
        /\ result[p] = "RuntimeError"
        /\ lock = q

\* C10 (SpecLock): a non-blocking flock while another session holds the lock
\* fails in that step with BlockingIOError, opens no device, writes nothing
\* and leaves the holder's lock alone; the failed session never opens or
\* writes; ping_keep_alive turns BlockingIOError into (False, ""); and a flock
\* made while the lock is free is granted
C10_BusyIsNonFatal ==
    [][\A p \in Procs :
          /\ (pc[p] = "flock" /\ ~block[p] /\ lock \notin {"free", p}
                /\ pc'[p] # pc[p]) =>
                 /\ exc'[p] = "BlockingIOError"
                 /\ pc'[p] = "exit_with"
                 /\ lock' = lock
                 /\ handle' = handle
                 /\ nwrites' = nwrites
          /\ exc[p] = "BlockingIOError" =>
                 /\ handle[p] = "none"
                 /\ nwrites[p] = 0
                 /\ lock # p
          /\ (pc[p] = "return" /\ exc[p] = "BlockingIOError"
                /\ caller[p] = "ping_keep_alive" /\ pc'[p] = "idle") =>
                 result'[p] = "(False, '')"
          /\ (pc[p] = "flock" /\ lock = "free" /\ pc'[p] # pc[p]) =>
                 /\ lock' = p
                 /\ exc'[p] = "none"
      ]_vars

\* a best-effort ping has come back with (False, "") while the other process
\* still holds the lock, its device open and written to
C10_Witness ==
    \E p, q \in Procs :
        /\ p # q
        /\ pc[p] = "idle"
        /\ result[p] = "(False, '')"
        /\ lock = q
        /\ nwrites[q] >= 1
        /\ handle[q] = "open"

\* C11 (Spec): when the transport fails a write of a set_buttons transmission,
\* no chunk after the failing one is written, set_buttons raises instead of
\* returning True, and the bundle-send count stays as it was
C11_WriteFailureAborts ==
    [][(op' = "set_buttons" /\ write_fault' > 0) =>
          /\ Len(writes') = write_fault'
          /\ raised' # "none"
          /\ ret' # RetTrue
          /\ zip_send_count' = zip_send_count
          /\ last_zip_count' = last_zip_count]_vars

\* the number of quirk offsets of the archive of the last set_buttons call
\* that held an invalid byte
PatchedNow ==
    Cardinality({i \in QuirkOffsetsOf(call_arg) : At(call_arg, i) \in INVALID_BYTES})

\* C12 (Spec): after a set_buttons call that returned, _last_patched_bytes is
\* the number of offsets patched in that transmission and _last_patch_note is
\* empty exactly when that number is zero
C12_PatchReport ==
    (op = "set_buttons" /\ ret = RetTrue) =>
        /\ last_patched_bytes = PatchedNow
        /\ (last_patch_note = <<>>) <=> (PatchedNow = 0)

\* C13 (Spec): _zip_send_count starts at 0, is mirrored in _last_zip_count,
\* grows by one with every set_buttons call whose writes the transport all
\* took, and is changed by no other step
C13_SendCount ==
    /\ zip_send_count = 0
    /\ last_zip_count = 0
    /\ [][/\ last_zip_count' = zip_send_count'
          /\ zip_send_count' =
                 zip_send_count
                 + (IF op' = "set_buttons" /\ raised' = "none" /\ write_fault' = 0
                    THEN 1 ELSE 0)]_vars

\* the config names an icon file, and whether that file exists
HasIcon(config) == "image" \in DOMAIN config /\ config["image"] \in DOMAIN FileSystem
MissingIcon(config) == "image" \in DOMAIN config /\ config["image"] \notin DOMAIN FileSystem

\* "{col}_{row}" in ASCII for the indexes of the model (one or two digits)
KeyOf(idx) ==
    LET digits(n) == IF n < 10 THEN <<48 + n>> ELSE <<48 + (n \div 10), 48 + (n % 10)>>
    IN  digits(idx % 5) \o <<95>> \o digits(idx \div 5)

\* C14 (SpecBundle): the manifest of the bundle built by set_buttons has one
\* entry per configured index under the key "{col}_{row}"; its State is the
\* configured state or 0, ViewParam has one element, Text is there exactly
\* when a label was given, Icon exactly when an existing icon file was given,
\* and then Icon is "icons/<basename>" and the archive has an entry of that
\* name with the file's bytes
C14_Manifest ==
    op = "set_buttons" =>
        LET b == bundle.buttons
            m == bundle.manifest
        IN  /\ Cardinality(DOMAIN m) = Len(b)
            /\ \A n \in 1..Len(b) :
                 LET config == b[n].config
                     key == KeyOf(b[n].idx)
                 IN  /\ key \in DOMAIN m
                     /\ m[key].State =
                            (IF "state" \in DOMAIN config THEN config["state"] ELSE 0)
                     /\ Len(m[key].ViewParam) = 1
                     /\ LET vp == m[key].ViewParam[1]
                        IN  /\ "Text" \in DOMAIN vp <=> "label" \in DOMAIN config
                            /\ "label" \in DOMAIN config => vp["Text"] = config["label"]
                            /\ "Icon" \in DOMAIN vp <=> HasIcon(config)
                            /\ HasIcon(config) =>
                                 LET image == config["image"]
                                 IN  /\ vp["Icon"] = <<"icons", image[Len(image)]>>
                                     /\ \E e \in 1..Len(bundle.icons) :
                                          /\ bundle.icons[e].name = vp["Icon"]
                                          /\ bundle.icons[e].data = FileSystem[image]

\* a bundle was built for two buttons, one on index 13 with a state, a label
\* and no icon, one with an existing icon
C14_Witness ==
    /\ op = "set_buttons"
    /\ Len(bundle.buttons) = 2
    /\ \E n \in 1..2 : /\ bundle.buttons[n].idx = 13
                       /\ "state" \in DOMAIN bundle.buttons[n].config
    /\ \E n \in 1..2 : HasIcon(bundle.buttons[n].config)
    /\ Len(bundle.icons) >= 1

\* C15 (SpecBundle): the archive built by set_buttons holds at most one entry
\* of each name, whatever icon files the buttons reference
C15_IconsDeduplicated ==
    op = "set_buttons" =>
        \A i, j \in 1..Len(bundle.names) :
            i # j => bundle.names[i] # bundle.names[j]

\* the buttons without the n-th
Without(b, n) == SubSeq(b, 1, n - 1) \o SubSeq(b, n + 1, Len(b))

\* C16 (SpecBundle): a button whose icon file does not exist does not fail
\* set_buttons: on a transport that takes the writes the call sends the bundle
\* and returns True, the button's entry has its State and Text and no Icon,
\* the archive has no icon entry for it, and the other buttons' entries and
\* icons are what they are without that button
C16_MissingIconSkipped ==
    op = "set_buttons" =>
        \A n \in 1..Len(bundle.buttons) :
            LET config == bundle.buttons[n].config
                key == KeyOf(bundle.buttons[n].idx)
                m == bundle.manifest
                rest == build_bundle(Without(bundle.buttons, n))
            IN  MissingIcon(config) =>
                  /\ write_fault = 0 =>
                        /\ ret = RetTrue
                        /\ raised = "none"
                        /\ Len(writes) >= 1
                  /\ key \in DOMAIN m
                  /\ m[key].State =
                         (IF "state" \in DOMAIN config THEN config["state"] ELSE 0)
                  /\ "Text" \in DOMAIN m[key].ViewParam[1] <=> "label" \in DOMAIN config
                  /\ "label" \in DOMAIN config =>
                         m[key].ViewParam[1]["Text"] = config["label"]
                  /\ "Icon" \notin DOMAIN m[key].ViewParam[1]
                  /\ \A e \in 1..Len(bundle.icons) :
                         bundle.icons[e].name # <<"icons", config["image"][Len(config["image"])]>>
                  /\ bundle.icons = rest.icons
                  /\ DOMAIN rest.manifest = DOMAIN m \ {key}
                  /\ \A k \in DOMAIN rest.manifest : rest.manifest[k] = m[k]

\* set_buttons returned True for two buttons, the first with a missing icon
\* file, the second with an existing one
C16_Witness ==
    /\ op = "set_buttons"
    /\ ret = RetTrue
    /\ Len(bundle.buttons) = 2
    /\ MissingIcon(bundle.buttons[1].config)
    /\ HasIcon(bundle.buttons[2].config)
    /\ Len(bundle.icons) = 1

\* min(100, max(0, level)) in decimal ASCII
ClampedDigits(level) ==
    LET c == IF level < 0 THEN 0 ELSE IF level > 100 THEN 100 ELSE level
    IN  IF c = 100 THEN <<49, 48, 48>>
        ELSE IF c >= 10 THEN <<48 + (c \div 10), 48 + (c % 10)>>
        ELSE <<48 + c>>

\* C17 (SpecBrightness): set_brightness hands device.write exactly one
\* 1024-byte frame: marker, command 0x000A, the length of the payload (1 to 3)
\* as little-endian 32-bit, the decimal ASCII digits of min(100, max(0, level)),
\* zeros after them; -10, 0, 100, 150 send "0", "0", "100", "100"
C17_BrightnessFrame ==
    op = "set_brightness" =>
        LET level == call_arg[1]
            digits == ClampedDigits(level)
            n == Len(digits)
        IN  /\ Len(writes) = 1
            /\ Len(writes[1]) = 1024
            /\ SubSeq(writes[1], 1, 8) = <<124, 124, 0, 10, n, 0, 0, 0>>
            /\ n \in 1..3
            /\ SubSeq(writes[1], 9, 8 + n) = digits
            /\ \A i \in (9 + n)..1024 : writes[1][i] = 0
            /\ level \in {0 - 10, 0} => SubSeq(writes[1], 9, 9) = <<48>>
            /\ level \in {100, 150} => SubSeq(writes[1], 9, 11) = <<49, 48, 48>>

\* set_brightness(150) has returned on an open handle
C17_Witness ==
    /\ op = "set_brightness"
    /\ call_arg = <<150>>
    /\ raised = "none"
    /\ write_fault = 0
    /\ Len(writes) = 1

\* ceil(max(0, L - 1016) / 1024)
ContinuationCount(L) == IF L <= 1016 THEN 0 ELSE (L - 1016 + 1023) \div 1024

\* C18 (SpecStream): _send_file on a stream of length L makes
\* 1 + ceil(max(0, L - 1016) / 1024) writes; the first is the header frame with
\* the marker, the set-buttons command and stream bytes [0, 1016); the k-th
\* later write is the 1024-byte stream window at offset 1016 + 1024 * (k - 1),
\* without header, and only the last window is filled up with zeros
C18_WritesInStreamOrder ==
    fn = "send_file" =>
        LET L == Len(stream)
            n == ContinuationCount(L)
        IN  /\ Len(writes) = 1 + n
            /\ Len(writes[1]) = 1024
            /\ SubSeq(writes[1], 1, 4) = <<124, 124, 0, 1>>
            /\ \A i \in 0..1015 :
                   writes[1][9 + i] = IF i < L THEN stream[i + 1] ELSE 0
            /\ \A k \in 1..n :
                   LET start == 1016 + 1024 * (k - 1)
                   IN  /\ Len(writes[k + 1]) = 1024
                       /\ \A j \in 0..1023 :
                              writes[k + 1][j + 1] =
                                  IF start + j < L THEN stream[start + j + 1] ELSE 0
                       /\ k < n => start + 1024 <= L

\* a stream that fills its first continuation window exactly and has sent
\* the header frame and that window
C18_Witness ==
    /\ fn = "send_file"
    /\ Len(stream) = 2040
    /\ Len(writes) = 2
    /\ writes[2][1024] = stream[2040]

\* C19 (Spec): the object starts with no observer, and only
\* set_button_callback changes _button_callback: every other call, a read
\* that fails to decode included, leaves the observer as it was
C19_ObserverKept ==
    /\ button_callback = "None"
    /\ [][op' # "set_button_callback" => button_callback' = button_callback]_vars

\* armed, a read has returned a frame cut off inside the button payload, the
\* decoder gave None and the observer is still registered
C19_Witness ==
    /\ op = "read_button_press"
    /\ button_callback = "obs_ok"
    /\ Len(read_data) = 9
    /\ ret = RetNone
    /\ zip_send_count >= 1

\* C20 (SpecStream): the offsets _patch_invalid_bytes returns are the offsets
\* i < len with i mod 1024 = 1016 whose input byte was 0x00 or 0x7C, each
\* once and in ascending order; the returned stream holds 0x01 on each of
\* them and neither 0x00 nor 0x7C on any offset congruent to 1016 mod 1024;
\* the loop ends after one scan of a clean stream and two scans otherwise
C20_PatchOffsets ==
    fn = "patch" =>
        LET bad == {i \in QuirkOffsetsOf(stream) : At(stream, i) \in {0, 124}}
            offsets == patch_out.offsets
        IN  /\ {offsets[k] : k \in 1..Len(offsets)} = bad
            /\ \A k \in 1..(Len(offsets) - 1) : offsets[k] < offsets[k + 1]
            /\ \A i \in bad : At(patch_out.data, i) = 1
            /\ \A i \in QuirkOffsetsOf(patch_out.data) :
                   At(patch_out.data, i) \notin {0, 124}
            /\ patch_out.scans = IF bad = {} THEN 1 ELSE 2

\* a stream with 0x7C on offset 1016 and 0x00 on offset 2040 has been patched
C20_Witness ==
    /\ fn = "patch"
    /\ Len(stream) = 2041
    /\ At(stream, 1016) = 124
    /\ At(stream, 2040) = 0
    /\ patch_out.offsets = <<1016, 2040>>

\* C21 (SpecTransmit): the writes of set_buttons after the header frame begin
\* at the archive offsets 1016, 2040, ..., the offsets the patcher inspects:
\* a transmission that is not cut short has one such write per offset, each
\* begins with the archive byte of its offset, or with 0x01 where that byte
\* was 0x00 or 0x7C, and so none begins with 0x00 or 0x7C
C21_ContinuationStart ==
    op = "set_buttons" =>
        /\ raised = "none" =>
               Len(writes) = 1 + Cardinality(QuirkOffsetsOf(call_arg))
        /\ \A k \in 2..Len(writes) :
               LET o == 1016 + 1024 * (k - 2)
               IN  /\ o \in QuirkOffsetsOf(call_arg)
                   /\ writes[k][1] =
                          (IF At(call_arg, o) \in {0, 124} THEN 1
                           ELSE At(call_arg, o))
                   /\ writes[k][1] \notin {0, 124}

\* set_buttons has sent an archive with 0x7C on offset 1016 and 0x00 on
\* offset 2040 in three writes
C21_Witness ==
    /\ op = "set_buttons"
    /\ raised = "none"
    /\ Len(call_arg) = 2041
    /\ At(call_arg, 1016) = 124
    /\ At(call_arg, 2040) = 0
    /\ Len(writes) = 3
    /\ writes[2][1] = 1
    /\ writes[3][1] = 1

====
